---- MODULE Spec2Model ----
(***************************************************************************)
(* A model of three modules of the xingtian / zeus tree as one Python      *)
(* interpreter session:                                                    *)
(*   zeus/modules/blocks/blocks.py          nine registered block classes  *)
(*   zeus/modules/operators/quant/__init__  the quantization backend shim  *)
(*   xt/__init__.py                         the xt package initialisation  *)
(* The session is single threaded: it runs one import or one constructor   *)
(* call at a time, statement by statement.                                 *)
(***************************************************************************)
EXTENDS Integers, Sequences, FiniteSets

VARIABLES
    registry,       \* ClassFactory.__registry__: ClassType -> (name -> class)
    blocksPc,       \* number of class statements of blocks.py executed so far
    backend,        \* the backend the process was configured with
    quantPc,        \* position inside quant/__init__.py
    quantRuns,      \* executions of quant/__init__.py started so far
    tfCalls,        \* calls of is_tf_backend() made by the current execution
    tfResult,       \* what is_tf_backend() returned to the current execution
    quantAttempted, \* star-imports the current execution has executed
    quantLoaded,    \* star-imports the current execution has completed
    sysModules,     \* sys.modules: the modules loaded successfully
    xtPc,           \* position inside xt/__init__.py
    xtRuns,         \* executions of xt/__init__.py started so far
    xtDone,         \* executions of xt/__init__.py that ran to the end
    xtBound,        \* names bound in the xt namespace by the current execution
    xtRegCalls,     \* calls of register_xt_defaults() by the current execution
    xtDefaults,     \* registrations of the xt defaults performed in the process
    call,           \* the last constructor call: class name and arguments
    obj             \* the object that call built

vars == << registry, blocksPc, backend, quantPc, quantRuns, tfCalls, tfResult,
           quantAttempted, quantLoaded, sysModules, xtPc, xtRuns, xtDone,
           xtBound, xtRegCalls, xtDefaults, call, obj >>

blocksVars == << registry, blocksPc >>
quantVars == << quantPc, quantRuns, tfCalls, tfResult, quantAttempted, quantLoaded >>
xtVars == << xtPc, xtRuns, xtDone, xtBound, xtRegCalls, xtDefaults >>
objVars == << call, obj >>

(***************************************************************************)
(* Bounds of the model.                                                    *)
(***************************************************************************)
MaxIn == 4          \* inchannel ranges over 1..MaxIn
MaxOut == 2         \* outchannel, innerchannel, init_plane range over 1..MaxOut
MaxGroups == 2      \* groups ranges over 1..MaxGroups
MaxStride == 2      \* stride ranges over 1..MaxStride
MaxExpansion == 2   \* expansion of a directly built ShortCut: 1..MaxExpansion
MaxImports == 1     \* executions of quant/__init__.py and of xt/__init__.py

\* The values base_width is drawn from: the default 64, a wider and a narrower one.
BaseWidthValues == << 64, 128, 32 >>
Backends == {"TENSORFLOW", "PYTORCH", "MINDSPORE", "UNSET"}


(***************************************************************************)
(* zeus.common: ClassType and ClassFactory.  Their code is not among the   *)
(* sources; the registry is modelled as the mapping the decorator fills.   *)
(***************************************************************************)
ClassTypes == {"SEARCH_SPACE", "NETWORK", "GENERAL"}

EmptyMap == [n \in {} |-> n]

\* ClassFactory.register(type_name)(t_cls): file the class under its
\* __name__ in the registry of type_name, and hand the class back.
Register(reg, type_name, t_cls) ==
    [reg EXCEPT ![type_name] =
        [n \in DOMAIN @ \cup {t_cls.name} |-> IF n = t_cls.name THEN t_cls ELSE @[n]]]

\* A class object: its __name__ and the module that defined it.
BlockClass(name) == [name |-> name, module |-> "zeus.modules.blocks.blocks"]

ForeignClass == [name |-> "BasicBlock", module |-> "elsewhere"]

\* What other modules may have registered before blocks.py is imported.
PreRegistries ==
    { [t \in ClassTypes |-> EmptyMap],
      [t \in ClassTypes |-> IF t = "NETWORK"
                               THEN [n \in {ForeignClass.name} |-> ForeignClass]
                               ELSE EmptyMap] }

\* The decorated class statements of blocks.py with the ClassType each
\* decorator names, but PruneBasicConv filed under NETWORK.
ClassStatementsWrongType ==
    << [type |-> "SEARCH_SPACE", cls |-> BlockClass("ShortCut")],
       [type |-> "SEARCH_SPACE", cls |-> BlockClass("BottleConv")],
       [type |-> "SEARCH_SPACE", cls |-> BlockClass("BasicConv")],
       [type |-> "SEARCH_SPACE", cls |-> BlockClass("SmallInputInitialBlock")],
       [type |-> "SEARCH_SPACE", cls |-> BlockClass("InitialBlock")],
       [type |-> "SEARCH_SPACE", cls |-> BlockClass("BasicBlock")],
       [type |-> "SEARCH_SPACE", cls |-> BlockClass("BottleneckBlock")],
       [type |-> "SEARCH_SPACE", cls |-> BlockClass("PruneBasicBlock")],
       [type |-> "NETWORK", cls |-> BlockClass("PruneBasicConv")] >>

\* The decorated class statements of blocks.py, in file order, with the
\* ClassType each decorator names.
ClassStatements ==
    << [type |-> "SEARCH_SPACE", cls |-> BlockClass("ShortCut")],
       [type |-> "SEARCH_SPACE", cls |-> BlockClass("BottleConv")],
       [type |-> "SEARCH_SPACE", cls |-> BlockClass("BasicConv")],
       [type |-> "SEARCH_SPACE", cls |-> BlockClass("SmallInputInitialBlock")],
       [type |-> "SEARCH_SPACE", cls |-> BlockClass("InitialBlock")],
       [type |-> "SEARCH_SPACE", cls |-> BlockClass("BasicBlock")],
       [type |-> "SEARCH_SPACE", cls |-> BlockClass("BottleneckBlock")],
       [type |-> "SEARCH_SPACE", cls |-> BlockClass("PruneBasicBlock")],
       [type |-> "SEARCH_SPACE", cls |-> BlockClass("PruneBasicConv")] >>

BlocksImported == blocksPc = Len(ClassStatements)

(***************************************************************************)
(* The layers a constructor creates.  A layer is recorded with exactly the *)
(* arguments the call passes; a module is its class name and its           *)
(* attributes in the order __init__ assigns them.                          *)
(***************************************************************************)
Attribute(name, value) == [name |-> name, value |-> value]

Relu == [op |-> "Relu"]

BatchNorm2d(num_features) == [op |-> "BatchNorm2d", num_features |-> num_features]

Add(first, second) == [op |-> "Add", branches |-> << first, second >>]

\* Python's int(outchannel * (base_width / 64.)): the product is exact in
\* a double for these sizes and int() drops the fraction of a positive value.
ScaledWidth(outchannel, base_width) == (outchannel * base_width) \div 64

\* ShortCut.__init__ with the test of line 35 demanding both conditions.
ShortCutBothConditions(inchannel, outchannel, expansion, stride) ==
    [cls |-> "ShortCut",
     attrs |->
        IF stride # 1 /\ inchannel # outchannel * expansion
        THEN << Attribute("conv1", [op |-> "Conv2d", in_channels |-> inchannel,
                                    out_channels |-> outchannel * expansion,
                                    kernel_size |-> 1, stride |-> stride,
                                    bias |-> FALSE]),
                Attribute("batch", BatchNorm2d(outchannel * expansion)) >>
        ELSE << >>]

ShortCut(inchannel, outchannel, expansion, stride) ==
    [cls |-> "ShortCut",
     attrs |->
        IF stride # 1 \/ inchannel # outchannel * expansion
        THEN << Attribute("conv1", [op |-> "Conv2d", in_channels |-> inchannel,
                                    out_channels |-> outchannel * expansion,
                                    kernel_size |-> 1, stride |-> stride,
                                    bias |-> FALSE]),
                Attribute("batch", BatchNorm2d(outchannel * expansion)) >>
        ELSE << >>]

BottleConv(inchannel, outchannel, expansion, groups, base_width, stride) ==
    LET width == ScaledWidth(outchannel, base_width) * groups
    IN  [cls |-> "BottleConv",
         attrs |->
            << Attribute("conv1", [op |-> "Conv2d", in_channels |-> inchannel,
                                   out_channels |-> width, kernel_size |-> 1,
                                   stride |-> 1, bias |-> FALSE]),
               Attribute("batch1", BatchNorm2d(width)),
               Attribute("conv2", [op |-> "Conv2d", in_channels |-> width,
                                   out_channels |-> width, kernel_size |-> 3,
                                   stride |-> stride, padding |-> 1,
                                   groups |-> groups, bias |-> FALSE]),
               Attribute("batch2", BatchNorm2d(width)),
               Attribute("conv3", [op |-> "Conv2d", in_channels |-> width,
                                   out_channels |-> width * expansion,
                                   kernel_size |-> 1, stride |-> 1,
                                   bias |-> FALSE]),
               Attribute("batch3", BatchNorm2d(width * expansion)),
               Attribute("relu", Relu) >>]

\* BasicConv.__init__ with the second convolution keeping inchannel channels.
BasicConvKeepsInput(inchannel, outchannel, groups, base_width, stride) ==
    [cls |-> "BasicConv",
     attrs |->
        << Attribute("conv", [op |-> "Conv2d", in_channels |-> inchannel,
                              out_channels |-> outchannel, kernel_size |-> 3,
                              stride |-> stride, padding |-> 1,
                              groups |-> groups, bias |-> FALSE]),
           Attribute("batch", BatchNorm2d(outchannel)),
           Attribute("relu", [op |-> "Relu", inplace |-> TRUE]),
           Attribute("conv2", [op |-> "Conv2d", in_channels |-> outchannel,
                               out_channels |-> inchannel, kernel_size |-> 3,
                               padding |-> 1, groups |-> groups,
                               bias |-> FALSE]),
           Attribute("batch2", BatchNorm2d(inchannel)) >>]

BasicConv(inchannel, outchannel, groups, base_width, stride) ==
    [cls |-> "BasicConv",
     attrs |->
        << Attribute("conv", [op |-> "Conv2d", in_channels |-> inchannel,
                              out_channels |-> outchannel, kernel_size |-> 3,
                              stride |-> stride, padding |-> 1,
                              groups |-> groups, bias |-> FALSE]),
           Attribute("batch", BatchNorm2d(outchannel)),
           Attribute("relu", [op |-> "Relu", inplace |-> TRUE]),
           Attribute("conv2", [op |-> "Conv2d", in_channels |-> outchannel,
                               out_channels |-> outchannel, kernel_size |-> 3,
                               padding |-> 1, groups |-> groups,
                               bias |-> FALSE]),
           Attribute("batch2", BatchNorm2d(outchannel)) >>]

SmallInputInitialBlock(init_plane) ==
    [cls |-> "SmallInputInitialBlock",
     attrs |->
        << Attribute("conv", [op |-> "Conv2d", in_channels |-> 3,
                              out_channels |-> init_plane, kernel_size |-> 3,
                              stride |-> 1, padding |-> 1, bias |-> FALSE]),
           Attribute("bn", BatchNorm2d(init_plane)),
           Attribute("relu", Relu) >>]

InitialBlock(init_plane) ==
    [cls |-> "InitialBlock",
     attrs |->
        << Attribute("conv", [op |-> "Conv2d", in_channels |-> 3,
                              out_channels |-> init_plane, kernel_size |-> 7,
                              stride |-> 2, padding |-> 3, bias |-> FALSE]),
           Attribute("batch", BatchNorm2d(init_plane)),
           Attribute("maxpool2d", [op |-> "MaxPool2d", kernel_size |-> 3,
                                   stride |-> 2, padding |-> 1]) >>]

BasicBlockExpansion == 1

BasicBlock(inchannel, outchannel, groups, base_width, stride) ==
    LET base_conv == BasicConv(inchannel, outchannel, groups, base_width, stride)
        shortcut == ShortCut(inchannel, outchannel, BasicBlockExpansion, stride)
    IN  [cls |-> "BasicBlock",
         attrs |-> << Attribute("block", Add(base_conv, shortcut)),
                      Attribute("relu", Relu) >>]

BottleneckBlockExpansion == 4

BottleneckBlock(inchannel, outchannel, groups, base_width, stride) ==
    LET bottle_conv == BottleConv(inchannel, outchannel, BottleneckBlockExpansion,
                                  groups, base_width, stride)
        shortcut == ShortCut(inchannel, outchannel, BottleneckBlockExpansion, stride)
    IN  [cls |-> "BottleneckBlock",
         attrs |-> << Attribute("block", Add(bottle_conv, shortcut)),
                      Attribute("relu", Relu) >>]

PruneBasicConv(in_planes, planes, inner_plane, stride) ==
    [cls |-> "PruneBasicConv",
     attrs |->
        << Attribute("conv1", [op |-> "Conv2d", in_channels |-> in_planes,
                               out_channels |-> inner_plane, kernel_size |-> 3,
                               stride |-> stride, padding |-> 1,
                               bias |-> FALSE]),
           Attribute("bn1", BatchNorm2d(inner_plane)),
           Attribute("relu", Relu),
           Attribute("conv2", [op |-> "Conv2d", in_channels |-> inner_plane,
                               out_channels |-> planes, kernel_size |-> 3,
                               stride |-> 1, padding |-> 1, bias |-> FALSE]),
           Attribute("bn2", BatchNorm2d(planes)),
           Attribute("relu2", Relu) >>]

PruneBasicBlockExpansion == 1

PruneBasicBlock(inchannel, outchannel, innerchannel, stride) ==
    LET conv_block == PruneBasicConv(inchannel, outchannel, innerchannel, stride)
        shortcut == ShortCut(inchannel, outchannel, PruneBasicBlockExpansion, stride)
    IN  [cls |-> "PruneBasicBlock",
         attrs |-> << Attribute("block", Add(conv_block, shortcut)),
                      Attribute("relu3", Relu) >>]

(***************************************************************************)
(* The session.                                                            *)
(***************************************************************************)
NoCall == [cls |-> "none"]

\* No import is part way through: the interpreter is between operations.
Idle ==
    /\ blocksPc \in {0, Len(ClassStatements)}
    /\ quantPc \in {"idle", "done", "failed"}
    /\ xtPc \in {"idle", "done", "failed"}

\* An import statement of a module that is already loaded succeeds; one of
\* a module not yet loaded succeeds (TRUE) or raises (FALSE).
ImportOutcomes(m) == IF m \in sysModules THEN {TRUE} ELSE BOOLEAN

Init ==
    /\ registry \in PreRegistries
    /\ blocksPc = 0
    /\ backend \in Backends
    /\ quantPc = "idle"
    /\ quantRuns = 0
    /\ tfCalls = 0
    /\ tfResult = FALSE
    /\ quantAttempted = {}
    /\ quantLoaded = {}
    /\ sysModules = {}
    /\ xtPc = "idle"
    /\ xtRuns = 0
    /\ xtDone = 0
    /\ xtBound = {}
    /\ xtRegCalls = 0
    /\ xtDefaults = 0
    /\ call = NoCall
    /\ obj = NoCall

(***************************************************************************)
(* import zeus.modules.blocks.blocks: the class statements run in file     *)
(* order, each decorator registering its class as the statement completes. *)
(***************************************************************************)
ExecClassStatement ==
    /\ blocksPc < Len(ClassStatements)
    /\ blocksPc > 0 \/ Idle
    /\ LET stmt == ClassStatements[blocksPc + 1]
       IN  registry' = Register(registry, stmt.type, stmt.cls)
    /\ blocksPc' = blocksPc + 1
    /\ UNCHANGED << backend, quantVars, sysModules, xtVars, objVars >>

(***************************************************************************)
(* Constructor calls, possible once blocks.py has been imported.           *)
(***************************************************************************)
\* The constructors read nothing of the session but their arguments, so a
\* behaviour follows one call: every call is the first call of some behaviour.
CanConstruct == Idle /\ BlocksImported /\ call = NoCall

NewShortCut ==
    /\ CanConstruct
    /\ \E i \in 1..MaxIn, o \in 1..MaxOut, e \in 1..MaxExpansion, s \in 1..MaxStride :
          /\ call' = [cls |-> "ShortCut",
                      args |-> [inchannel |-> i, outchannel |-> o,
                                expansion |-> e, stride |-> s]]
          /\ obj' = ShortCut(i, o, e, s)
    /\ UNCHANGED << blocksVars, backend, quantVars, sysModules, xtVars >>

NewBottleConv ==
    /\ CanConstruct
    /\ \E i \in 1..MaxIn, o \in 1..MaxOut, e \in 1..MaxExpansion,
          g \in 1..MaxGroups, k \in 1..Len(BaseWidthValues), s \in 1..MaxStride :
          /\ call' = [cls |-> "BottleConv",
                      args |-> [inchannel |-> i, outchannel |-> o, expansion |-> e,
                                groups |-> g, base_width |-> BaseWidthValues[k], stride |-> s]]
          /\ obj' = BottleConv(i, o, e, g, BaseWidthValues[k], s)
    /\ UNCHANGED << blocksVars, backend, quantVars, sysModules, xtVars >>

NewBasicConv ==
    /\ CanConstruct
    /\ \E i \in 1..MaxIn, o \in 1..MaxOut, g \in 1..MaxGroups,
          k \in 1..Len(BaseWidthValues), s \in 1..MaxStride :
          /\ call' = [cls |-> "BasicConv",
                      args |-> [inchannel |-> i, outchannel |-> o, groups |-> g,
                                base_width |-> BaseWidthValues[k], stride |-> s]]
          /\ obj' = BasicConv(i, o, g, BaseWidthValues[k], s)
    /\ UNCHANGED << blocksVars, backend, quantVars, sysModules, xtVars >>

NewSmallInputInitialBlock ==
    /\ CanConstruct
    /\ \E p \in 1..MaxOut :
          /\ call' = [cls |-> "SmallInputInitialBlock", args |-> [init_plane |-> p]]
          /\ obj' = SmallInputInitialBlock(p)
    /\ UNCHANGED << blocksVars, backend, quantVars, sysModules, xtVars >>

NewInitialBlock ==
    /\ CanConstruct
    /\ \E p \in 1..MaxOut :
          /\ call' = [cls |-> "InitialBlock", args |-> [init_plane |-> p]]
          /\ obj' = InitialBlock(p)
    /\ UNCHANGED << blocksVars, backend, quantVars, sysModules, xtVars >>

NewBasicBlock ==
    /\ CanConstruct
    /\ \E i \in 1..MaxIn, o \in 1..MaxOut, g \in 1..MaxGroups,
          k \in 1..Len(BaseWidthValues), s \in 1..MaxStride :
          /\ call' = [cls |-> "BasicBlock",
                      args |-> [inchannel |-> i, outchannel |-> o, groups |-> g,
                                base_width |-> BaseWidthValues[k], stride |-> s]]
          /\ obj' = BasicBlock(i, o, g, BaseWidthValues[k], s)
    /\ UNCHANGED << blocksVars, backend, quantVars, sysModules, xtVars >>

NewBottleneckBlock ==
    /\ CanConstruct
    /\ \E i \in 1..MaxIn, o \in 1..MaxOut, g \in 1..MaxGroups,
          k \in 1..Len(BaseWidthValues), s \in 1..MaxStride :
          /\ call' = [cls |-> "BottleneckBlock",
                      args |-> [inchannel |-> i, outchannel |-> o, groups |-> g,
                                base_width |-> BaseWidthValues[k], stride |-> s]]
          /\ obj' = BottleneckBlock(i, o, g, BaseWidthValues[k], s)
    /\ UNCHANGED << blocksVars, backend, quantVars, sysModules, xtVars >>

NewPruneBasicBlock ==
    /\ CanConstruct
    /\ \E i \in 1..MaxIn, o \in 1..MaxOut, n \in 1..MaxOut, s \in 1..MaxStride :
          /\ call' = [cls |-> "PruneBasicBlock",
                      args |-> [inchannel |-> i, outchannel |-> o,
                                innerchannel |-> n, stride |-> s]]
          /\ obj' = PruneBasicBlock(i, o, n, s)
    /\ UNCHANGED << blocksVars, backend, quantVars, sysModules, xtVars >>

NewPruneBasicConv ==
    /\ CanConstruct
    /\ \E i \in 1..MaxIn, o \in 1..MaxOut, n \in 1..MaxOut, s \in 1..MaxStride :
          /\ call' = [cls |-> "PruneBasicConv",
                      args |-> [in_planes |-> i, planes |-> o,
                                inner_plane |-> n, stride |-> s]]
          /\ obj' = PruneBasicConv(i, o, n, s)
    /\ UNCHANGED << blocksVars, backend, quantVars, sysModules, xtVars >>

(***************************************************************************)
(* import zeus.modules.operators.quant                                     *)
(***************************************************************************)
\* zeus.is_tf_backend(): whether the configured backend is TensorFlow.
IsTfBackend(b) == b = "TENSORFLOW"

\* Line 1: the module body starts; zeus itself is loaded, being the
\* package this module lives in.
QuantBegin ==
    /\ Idle
    /\ quantRuns < MaxImports
    /\ quantRuns' = quantRuns + 1
    /\ quantPc' = "line3"
    /\ tfCalls' = 0
    /\ tfResult' = FALSE
    /\ quantAttempted' = {}
    /\ quantLoaded' = {}
    /\ UNCHANGED << blocksVars, backend, sysModules, xtVars, objVars >>

\* Line 3 with the branches exchanged.
QuantTestInverted ==
    /\ quantPc = "line3"
    /\ tfResult' = IsTfBackend(backend)
    /\ tfCalls' = tfCalls + 1
    /\ quantPc' = IF IsTfBackend(backend) THEN "line6" ELSE "line4"
    /\ UNCHANGED << blocksVars, backend, quantRuns, quantAttempted, quantLoaded,
                    sysModules, xtVars, objVars >>

\* Line 3: if is_tf_backend():
QuantTest ==
    /\ quantPc = "line3"
    /\ tfResult' = IsTfBackend(backend)
    /\ tfCalls' = tfCalls + 1
    /\ quantPc' = IF IsTfBackend(backend) THEN "line4" ELSE "line6"
    /\ UNCHANGED << blocksVars, backend, quantRuns, quantAttempted, quantLoaded,
                    sysModules, xtVars, objVars >>

\* A star-import of submodule m from line `at`: it loads m and ends the
\* module body, or raises and ends the import of the package.
QuantStarImport(at, m) ==
    /\ quantPc = at
    /\ quantAttempted' = quantAttempted \cup {m}
    /\ \E ok \in ImportOutcomes(m) :
          IF ok
          THEN /\ quantLoaded' = quantLoaded \cup {m}
               /\ sysModules' = sysModules \cup {m}
               /\ quantPc' = "done"
          ELSE /\ quantPc' = "failed"
               /\ UNCHANGED << quantLoaded, sysModules >>
    /\ UNCHANGED << blocksVars, backend, quantRuns, tfCalls, tfResult, xtVars, objVars >>

\* Line 4: from .tensorflow_quant import *
QuantImportTensorflow == QuantStarImport("line4", "zeus.modules.operators.quant.tensorflow_quant")

\* Line 6: from .pytroch_quant import *
QuantImportPytorch == QuantStarImport("line6", "zeus.modules.operators.quant.pytroch_quant")

(***************************************************************************)
(* import xt                                                               *)
(***************************************************************************)
\* zeus.common.util.register.register_xt_defaults(): one more registration
\* of the xt system modules.
RegisterXtDefaults(n) == n + 1

\* The module body starts.
XtBegin ==
    /\ Idle
    /\ xtRuns < MaxImports
    /\ xtRuns' = xtRuns + 1
    /\ xtPc' = "line6"
    /\ xtBound' = {}
    /\ xtRegCalls' = 0
    /\ UNCHANGED << blocksVars, backend, quantVars, sysModules, xtDone, xtDefaults,
                    objVars >>

\* from m import ... as name, at line `at`: binds name and goes on to
\* line `next`, or raises and ends the import of the package.
XtImport(at, next, m, name) ==
    /\ xtPc = at
    /\ \E ok \in ImportOutcomes(m) :
          IF ok
          THEN /\ sysModules' = sysModules \cup {m}
               /\ xtBound' = xtBound \cup {name}
               /\ xtPc' = next
          ELSE /\ xtPc' = "failed"
               /\ UNCHANGED << sysModules, xtBound >>
    /\ UNCHANGED << blocksVars, backend, quantVars, xtRuns, xtDone, xtRegCalls,
                    xtDefaults, objVars >>

\* The same statement inside a try/except that ignores the error.
XtImportIgnoringError(at, next, m, name) ==
    /\ xtPc = at
    /\ \E ok \in ImportOutcomes(m) :
          IF ok
          THEN /\ sysModules' = sysModules \cup {m}
               /\ xtBound' = xtBound \cup {name}
               /\ xtPc' = next
          ELSE /\ xtPc' = next
               /\ UNCHANGED << sysModules, xtBound >>
    /\ UNCHANGED << blocksVars, backend, quantVars, xtRuns, xtDone, xtRegCalls,
                    xtDefaults, objVars >>

\* Line 6: from xt.train import main as train
XtImportTrain == XtImport("line6", "line7", "xt.train", "train")

\* Line 7: from xt.evaluate import main as evaluate
XtImportEvaluate == XtImport("line7", "line8", "xt.evaluate", "evaluate")

XtImportBenchmarkingIgnoringError ==
    XtImportIgnoringError("line8", "line9", "xt.benchmarking", "benchmarking")

\* Line 8: from xt.benchmarking import main as benchmarking
XtImportBenchmarking == XtImport("line8", "line9", "xt.benchmarking", "benchmarking")

\* Line 9: from zeus.common.util.register import register_xt_defaults
XtImportRegister ==
    XtImport("line9", "line10", "zeus.common.util.register", "register_xt_defaults")

\* Line 10: register_xt_defaults()
XtCallRegister ==
    /\ xtPc = "line10"
    /\ xtRegCalls' = xtRegCalls + 1
    /\ xtDefaults' = RegisterXtDefaults(xtDefaults)
    /\ xtPc' = "line12"
    /\ UNCHANGED << blocksVars, backend, quantVars, sysModules, xtRuns, xtDone,
                    xtBound, objVars >>

\* Lines 12 and 14: __version__ and __ALL__ are bound; the import is complete.
XtFinish ==
    /\ xtPc = "line12"
    /\ xtBound' = xtBound \cup {"__version__", "__ALL__"}
    /\ xtPc' = "done"
    /\ xtDone' = xtDone + 1
    /\ UNCHANGED << blocksVars, backend, quantVars, sysModules, xtRuns, xtRegCalls,
                    xtDefaults, objVars >>

\* A session that imports blocks.py and builds a block.
NextBlocks ==
    \/ ExecClassStatement
    \/ NewShortCut
    \/ NewBottleConv
    \/ NewBasicConv
    \/ NewSmallInputInitialBlock
    \/ NewInitialBlock
    \/ NewBasicBlock
    \/ NewBottleneckBlock
    \/ NewPruneBasicBlock
    \/ NewPruneBasicConv

\* A session that imports the quant package and the xt package.
NextImports ==
    \/ QuantBegin
    \/ QuantTest
    \/ QuantImportTensorflow
    \/ QuantImportPytorch
    \/ XtBegin
    \/ XtImportTrain
    \/ XtImportEvaluate
    \/ XtImportBenchmarking
    \/ XtImportRegister
    \/ XtCallRegister
    \/ XtFinish

SpecBlocks == Init /\ [][NextBlocks]_vars

SpecImports == Init /\ [][NextImports]_vars

(***************************************************************************)
(* Vocabulary of the properties.                                           *)
(***************************************************************************)
\* The position and the value of attribute n of module m.
AttrIndex(m, n) == (CHOOSE i \in 1..Len(m.attrs) : m.attrs[i].name = n)

AttrValue(m, n) == m.attrs[AttrIndex(m, n)].value

\* The channels leaving the first k layers of a module fed c channels: a
\* convolution leaves out_channels, a batch norm leaves num_features, any
\* other layer leaves what it was given.
RECURSIVE ChannelsAfter(_, _, _)
ChannelsAfter(attrs, k, c) ==
    IF k = 0
    THEN c
    ELSE LET layer == attrs[k].value
         IN  IF layer.op = "Conv2d" THEN layer.out_channels
             ELSE IF layer.op = "BatchNorm2d" THEN layer.num_features
             ELSE ChannelsAfter(attrs, k - 1, c)

\* The channels a branch module m yields for an input of c channels; a
\* module without layers is the identity.
OutChannels(m, c) == ChannelsAfter(m.attrs, Len(m.attrs), c)

ConvBranch == AttrValue(obj, "block").branches[1]

ShortCutBranch == AttrValue(obj, "block").branches[2]

IsIdentity(m) == m.attrs = << >>

\* The names of the nine block classes.
BlockNames ==
    {"ShortCut", "BottleConv", "BasicConv", "SmallInputInitialBlock", "InitialBlock",
     "BasicBlock", "BottleneckBlock", "PruneBasicBlock", "PruneBasicConv"}

BlocksModule == "zeus.modules.blocks.blocks"

TensorflowQuant == "zeus.modules.operators.quant.tensorflow_quant"

PytorchQuant == "zeus.modules.operators.quant.pytroch_quant"

\* Every ShortCut the last call built, with the arguments it was given.
ShortCutsBuilt ==
    IF call.cls = "ShortCut"
    THEN {[args |-> call.args, made |-> obj]}
    ELSE IF call.cls \in {"BasicBlock", "PruneBasicBlock", "BottleneckBlock"}
    THEN {[args |-> [inchannel |-> call.args.inchannel,
                     outchannel |-> call.args.outchannel,
                     expansion |-> IF call.cls = "BottleneckBlock" THEN 4 ELSE 1,
                     stride |-> call.args.stride],
           made |-> ShortCutBranch]}
    ELSE {}

(***************************************************************************)
(* Properties.                                                             *)
(***************************************************************************)
\* C1: once blocks.py has been imported, the registry holds under
\* SEARCH_SPACE exactly one entry for each of the nine block classes, the
\* entry maps the class name to that class, and no class of blocks.py is
\* registered under any other ClassType.
RegistryHoldsBlocks ==
    BlocksImported =>
        /\ \A n \in BlockNames :
              /\ n \in DOMAIN registry["SEARCH_SPACE"]
              /\ registry["SEARCH_SPACE"][n] = [name |-> n, module |-> BlocksModule]
              /\ Cardinality({k \in DOMAIN registry["SEARCH_SPACE"] :
                                 registry["SEARCH_SPACE"][k] =
                                    [name |-> n, module |-> BlocksModule]}) = 1
        /\ \A t \in ClassTypes \ {"SEARCH_SPACE"} :
              \A k \in DOMAIN registry[t] : registry[t][k].module # BlocksModule

\* The import is complete in a process where another module had already
\* registered a class named BasicBlock under NETWORK.
RegistryHoldsBlocksWitness ==
    /\ BlocksImported
    /\ "BasicBlock" \in DOMAIN registry["NETWORK"]
    /\ Cardinality(DOMAIN registry["SEARCH_SPACE"]) = 9

\* C2: an execution of quant/__init__.py calls is_tf_backend() once, and
\* executes the TensorFlow star-import exactly when the call returned true
\* and the PyTorch star-import exactly when it returned false, never both;
\* an import that completes has loaded the one module it selected.
QuantSelectsOneBackend ==
    /\ tfCalls <= 1
    /\ quantPc \in {"idle", "line3"} => tfCalls = 0 /\ quantAttempted = {}
    /\ quantPc \in {"line4", "line6", "done", "failed"} => tfCalls = 1
    /\ quantPc = "line4" => tfResult
    /\ quantPc = "line6" => ~tfResult
    /\ quantPc \in {"done", "failed"} =>
          /\ TensorflowQuant \in quantAttempted <=> tfResult
          /\ PytorchQuant \in quantAttempted <=> ~tfResult
          /\ Cardinality(quantAttempted) = 1
    /\ quantLoaded \subseteq quantAttempted
    /\ quantPc = "done" => quantLoaded = quantAttempted

\* The import completed under a backend that is neither TensorFlow nor
\* PyTorch, and loaded the PyTorch operators.
QuantSelectsOneBackendWitness ==
    /\ quantPc = "done"
    /\ backend = "MINDSPORE"
    /\ tfCalls = 1
    /\ quantLoaded = {PytorchQuant}

\* C3: an execution of xt/__init__.py calls register_xt_defaults() at most
\* once, has called it once exactly when it got past line 10, calls it
\* only with train, evaluate and benchmarking imported, and an execution
\* that an import ended has not called it and registered nothing.
XtRegistersAfterImports ==
    /\ xtRegCalls <= 1
    /\ xtRegCalls = 1 <=> xtPc \in {"line12", "done"}
    /\ xtRegCalls = 1 =>
          /\ {"train", "evaluate", "benchmarking"} \subseteq xtBound
          /\ {"xt.train", "xt.evaluate", "xt.benchmarking"} \subseteq sysModules
    /\ xtPc = "failed" => xtRegCalls = 0
    /\ xtDefaults = xtDone + (IF xtPc = "line12" THEN 1 ELSE 0)

\* An import of xt ran to its end and registered the defaults once.
XtRegistersAfterImportsWitness ==
    /\ xtPc = "done"
    /\ xtRegCalls = 1
    /\ xtDefaults = 1
    /\ "benchmarking" \in xtBound

\* C4: in every BottleneckBlock the BottleConv branch and the ShortCut
\* branch yield the same number of channels, which is outchannel * 4 when
\* the ShortCut projects and inchannel when it is the identity.
BottleneckBranchesAgree ==
    call.cls = "BottleneckBlock" =>
        LET a == call.args
            shortOut == OutChannels(ShortCutBranch, a.inchannel)
        IN  /\ OutChannels(ConvBranch, a.inchannel) = shortOut
            /\ shortOut = IF IsIdentity(ShortCutBranch)
                          THEN a.inchannel
                          ELSE a.outchannel * 4

\* C5: a ShortCut holds exactly conv1 (1x1, inchannel to outchannel *
\* expansion, the given stride, no bias) and batch (outchannel * expansion
\* features) when stride # 1 or inchannel # outchannel * expansion, and
\* no layer at all otherwise.
ShortCutProjectsIff ==
    \A c \in ShortCutsBuilt :
        LET a == c.args
        IN  IF a.stride # 1 \/ a.inchannel # a.outchannel * a.expansion
            THEN c.made.attrs =
                    << [name |-> "conv1",
                        value |-> [op |-> "Conv2d", in_channels |-> a.inchannel,
                                   out_channels |-> a.outchannel * a.expansion,
                                   kernel_size |-> 1, stride |-> a.stride,
                                   bias |-> FALSE]],
                       [name |-> "batch",
                        value |-> [op |-> "BatchNorm2d",
                                   num_features |-> a.outchannel * a.expansion]] >>
            ELSE c.made.attrs = << >>

\* A ShortCut built with stride 1 and inchannel = outchannel * 2 is the
\* identity.
ShortCutProjectsIffWitness ==
    /\ call.cls = "ShortCut"
    /\ call.args.stride = 1
    /\ call.args.expansion = 2
    /\ call.args.inchannel = call.args.outchannel * 2
    /\ IsIdentity(obj)

\* C6: in every BasicBlock and every PruneBasicBlock the convolution branch
\* and the ShortCut branch both yield outchannel channels, and a ShortCut
\* that is the identity has inchannel = outchannel.
BasicBranchesAgree ==
    call.cls \in {"BasicBlock", "PruneBasicBlock"} =>
        LET a == call.args
        IN  /\ OutChannels(ConvBranch, a.inchannel) = a.outchannel
            /\ OutChannels(ShortCutBranch, a.inchannel) = a.outchannel
            /\ IsIdentity(ShortCutBranch) => a.inchannel = a.outchannel

\* A BasicBlock whose ShortCut is the identity on two channels.
BasicBranchesAgreeWitness ==
    /\ call.cls = "BasicBlock"
    /\ IsIdentity(ShortCutBranch)
    /\ call.args.inchannel = 2
    /\ OutChannels(ConvBranch, 2) = 2

====
